---------------------------- MODULE Spec2Model ----------------------------
(***************************************************************************)
(* Model of nokhwa's unified error type (src/src/error.rs): the enum       *)
(* NokhwaError, its derived Display and Clone, and the two conversions     *)
(* From<BindingError> (MediaFoundation) and From<AVFError> (AVFoundation). *)
(*                                                                         *)
(* A Rust String is modelled as a sequence of one-character strings, so    *)
(* that format!/Display is concatenation and "contains" is a real          *)
(* substring search.  An enum value is a record whose field tag names the  *)
(* variant and whose other fields are the variant's payload (f0, f1 for    *)
(* the positions of a tuple variant).                                      *)
(***************************************************************************)
EXTENDS Naturals, Sequences, FiniteSets

\* Number of free-text messages drawn from Messages for the native payloads.
NumMessages == 2

\* Largest device index handed to the conversions (a two-digit one).
MaxIndex == 10

(***************************************************************************)
(* Strings                                                                 *)
(***************************************************************************)

\* The empty String.
EmptyString == <<>>

Digits == <<"0", "1", "2", "3", "4", "5", "6", "7", "8", "9">>

\* usize::to_string: the decimal digits of n, most significant first.
RECURSIVE ToString(_)
ToString(n) ==
    IF n < 10
    THEN <<Digits[n + 1]>>
    ELSE ToString(n \div 10) \o <<Digits[(n % 10) + 1]>>

\* str::contains: m occurs in s as a contiguous substring.
Contains(s, m) ==
    /\ Len(m) <= Len(s)
    /\ \E i \in 0 .. (Len(s) - Len(m)) : SubSeq(s, i + 1, i + Len(m)) = m

(***************************************************************************)
(* The literal text of the #[error] attributes, lines 14-52.               *)
(***************************************************************************)

\* "Could not initialize "
S_CouldNotInitialize ==
    <<"C", "o", "u", "l", "d", " ", "n", "o", "t", " ", "i", "n", "i", "t",
      "i", "a", "l", "i", "z", "e", " ">>

\* "Could not shutdown "
S_CouldNotShutdown ==
    <<"C", "o", "u", "l", "d", " ", "n", "o", "t", " ", "s", "h", "u", "t",
      "d", "o", "w", "n", " ">>

\* ": "
S_ColonSpace ==
    <<":", " ">>

\* "Error: "
S_Error ==
    <<"E", "r", "r", "o", "r", ":", " ">>

\* "Could not generate required structure "
S_CouldNotGenerate ==
    <<"C", "o", "u", "l", "d", " ", "n", "o", "t", " ", "g", "e", "n", "e",
      "r", "a", "t", "e", " ", "r", "e", "q", "u", "i", "r", "e", "d", " ",
      "s", "t", "r", "u", "c", "t", "u", "r", "e", " ">>

\* "Could not open device "
S_CouldNotOpenDevice ==
    <<"C", "o", "u", "l", "d", " ", "n", "o", "t", " ", "o", "p", "e", "n",
      " ", "d", "e", "v", "i", "c", "e", " ">>

\* "Could not get device property "
S_CouldNotGetProperty ==
    <<"C", "o", "u", "l", "d", " ", "n", "o", "t", " ", "g", "e", "t", " ",
      "d", "e", "v", "i", "c", "e", " ", "p", "r", "o", "p", "e", "r", "t",
      "y", " ">>

\* "Could not set device property "
S_CouldNotSetProperty ==
    <<"C", "o", "u", "l", "d", " ", "n", "o", "t", " ", "s", "e", "t", " ",
      "d", "e", "v", "i", "c", "e", " ", "p", "r", "o", "p", "e", "r", "t",
      "y", " ">>

\* " with value "
S_WithValue ==
    <<" ", "w", "i", "t", "h", " ", "v", "a", "l", "u", "e", " ">>

\* "Could not open device stream: "
S_CouldNotOpenStream ==
    <<"C", "o", "u", "l", "d", " ", "n", "o", "t", " ", "o", "p", "e", "n",
      " ", "d", "e", "v", "i", "c", "e", " ", "s", "t", "r", "e", "a", "m",
      ":", " ">>

\* "Could not capture frame: "
S_CouldNotCapture ==
    <<"C", "o", "u", "l", "d", " ", "n", "o", "t", " ", "c", "a", "p", "t",
      "u", "r", "e", " ", "f", "r", "a", "m", "e", ":", " ">>

\* "Could not process frame "
S_CouldNotProcess ==
    <<"C", "o", "u", "l", "d", " ", "n", "o", "t", " ", "p", "r", "o", "c",
      "e", "s", "s", " ", "f", "r", "a", "m", "e", " ">>

\* " to "
S_To ==
    <<" ", "t", "o", " ">>

\* "Could not stop stream: "
S_CouldNotStop ==
    <<"C", "o", "u", "l", "d", " ", "n", "o", "t", " ", "s", "t", "o", "p",
      " ", "s", "t", "r", "e", "a", "m", ":", " ">>

\* "This operation is not supported by backend "
S_NotSupported ==
    <<"T", "h", "i", "s", " ", "o", "p", "e", "r", "a", "t", "i", "o", "n",
      " ", "i", "s", " ", "n", "o", "t", " ", "s", "u", "p", "p", "o", "r",
      "t", "e", "d", " ", "b", "y", " ", "b", "a", "c", "k", "e", "n", "d",
      " ">>

\* "."
S_Dot ==
    <<".">>

\* "This operation is not implemented yet: "
S_NotImplementedYet ==
    <<"T", "h", "i", "s", " ", "o", "p", "e", "r", "a", "t", "i", "o", "n",
      " ", "i", "s", " ", "n", "o", "t", " ", "i", "m", "p", "l", "e", "m",
      "e", "n", "t", "e", "d", " ", "y", "e", "t", ":", " ">>

(***************************************************************************)
(* The literals of From<BindingError>, lines 61-95.                        *)
(***************************************************************************)

\* "IMFAttribute"
S_IMFAttribute ==
    <<"I", "M", "F", "A", "t", "t", "r", "i", "b", "u", "t", "e">>

\* "Devices"
S_Devices ==
    <<"D", "e", "v", "i", "c", "e", "s">>

\* "Docs-Only MediaFoundation"
S_DocsOnly ==
    <<"D", "o", "c", "s", "-", "O", "n", "l", "y", " ", "M", "e", "d", "i",
      "a", "F", "o", "u", "n", "d", "a", "t", "i", "o", "n">>

(***************************************************************************)
(* The literals of From<AVFError>, lines 109-142.                          *)
(***************************************************************************)

\* "type of "
S_TypeOf ==
    <<"t", "y", "p", "e", " ", "o", "f", " ">>

\* "Invalid type, found "
S_InvalidTypeFound ==
    <<"I", "n", "v", "a", "l", "i", "d", " ", "t", "y", "p", "e", ",", " ",
      "f", "o", "u", "n", "d", " ">>

\* "Invalid Value"
S_InvalidValue ==
    <<"I", "n", "v", "a", "l", "i", "d", " ", "V", "a", "l", "u", "e">>

\* "Already Busy: "
S_AlreadyBusy ==
    <<"A", "l", "r", "e", "a", "d", "y", " ", "B", "u", "s", "y", ":", " ">>

\* "Configuration"
S_Configuration ==
    <<"C", "o", "n", "f", "i", "g", "u", "r", "a", "t", "i", "o", "n">>

\* "Invalid"
S_Invalid ==
    <<"I", "n", "v", "a", "l", "i", "d">>

\* "Rejected by AVFoundation"
S_RejectedByAVF ==
    <<"R", "e", "j", "e", "c", "t", "e", "d", " ", "b", "y", " ", "A", "V",
      "F", "o", "u", "n", "d", "a", "t", "i", "o", "n">>

\* "AVFoundation Error: "
S_AVFoundationError ==
    <<"A", "V", "F", "o", "u", "n", "d", "a", "t", "i", "o", "n", " ", "E",
      "r", "r", "o", "r", ":", " ">>

\* "AVFoundation Input Rejection"
S_InputRejection ==
    <<"A", "V", "F", "o", "u", "n", "d", "a", "t", "i", "o", "n", " ", "I",
      "n", "p", "u", "t", " ", "R", "e", "j", "e", "c", "t", "i", "o", "n">>

\* "AVFoundation Output Rejection"
S_OutputRejection ==
    <<"A", "V", "F", "o", "u", "n", "d", "a", "t", "i", "o", "n", " ", "O",
      "u", "t", "p", "u", "t", " ", "R", "e", "j", "e", "c", "t", "i", "o",
      "n">>

(***************************************************************************)
(* The enumerations of the crate root that error.rs imports (line 7).      *)
(* Their members and their Display live outside error.rs: the members are  *)
(* the two backends error.rs is compiled for and two frame formats, each   *)
(* displayed as its name.                                                  *)
(***************************************************************************)

\* "MediaFoundation"
S_MediaFoundation ==
    <<"M", "e", "d", "i", "a", "F", "o", "u", "n", "d", "a", "t", "i", "o",
      "n">>

\* "AVFoundation"
S_AVFoundation ==
    <<"A", "V", "F", "o", "u", "n", "d", "a", "t", "i", "o", "n">>

\* "MJPEG"
S_MJPEG ==
    <<"M", "J", "P", "E", "G">>

\* "YUYV"
S_YUYV ==
    <<"Y", "U", "Y", "V">>

CaptureAPIBackend == {"MediaFoundation", "AVFoundation"}

BackendDisplay(b) ==
    CASE b = "MediaFoundation" -> S_MediaFoundation
      [] b = "AVFoundation" -> S_AVFoundation

FrameFormat == {"MJPEG", "YUYV"}

FrameFormatDisplay(f) ==
    CASE f = "MJPEG" -> S_MJPEG
      [] f = "YUYV" -> S_YUYV

(***************************************************************************)
(* Free text the backends put in their errors.                             *)
(***************************************************************************)

\* "out of memory"
M_OutOfMemory ==
    <<"o", "u", "t", " ", "o", "f", " ", "m", "e", "m", "o", "r", "y">>

\* "permission denied"
M_PermissionDenied ==
    <<"p", "e", "r", "m", "i", "s", "s", "i", "o", "n", " ", "d", "e", "n",
      "i", "e", "d">>

\* "/dev/video0"
M_DevVideo0 ==
    <<"/", "d", "e", "v", "/", "v", "i", "d", "e", "o", "0">>

\* "timeout"
M_Timeout ==
    <<"t", "i", "m", "e", "o", "u", "t">>

Messages == <<M_OutOfMemory, M_PermissionDenied, M_DevVideo0, M_Timeout>>

\* The first NumMessages free-text messages.
Generic ==
    {Messages[i] : i \in
        1 .. (IF NumMessages < Len(Messages) THEN NumMessages ELSE Len(Messages))}

\* Payload strings of a MediaFoundation error: any text, the empty string and
\* the text From<BindingError> itself uses as a property name.
MsmfStrings == {EmptyString, S_Devices} \cup Generic

\* Payload strings of an AVFoundation error: any text, the empty string and
\* texts From<AVFError> itself produces: its two rejection messages, its
\* "Invalid Value" and a property name "type of ...".
AvfStrings ==
    {EmptyString, S_InputRejection, S_OutputRejection, S_InvalidValue,
     S_TypeOf \o M_OutOfMemory}
    \cup Generic

\* Device indices (usize): one-digit and two-digit ones.
Indices == {0, 1, MaxIndex}

(***************************************************************************)
(* enum NokhwaError, lines 13-54: one constructor per variant.             *)
(***************************************************************************)

InitializeError(backend, error) ==
    [tag |-> "InitializeError", backend |-> backend, error |-> error]

ShutdownError(backend, error) ==
    [tag |-> "ShutdownError", backend |-> backend, error |-> error]

GeneralError(m) == [tag |-> "GeneralError", f0 |-> m]

StructureError(structure, error) ==
    [tag |-> "StructureError", structure |-> structure, error |-> error]

OpenDeviceError(device, m) == [tag |-> "OpenDeviceError", f0 |-> device, f1 |-> m]

GetPropertyError(property, error) ==
    [tag |-> "GetPropertyError", property |-> property, error |-> error]

SetPropertyError(property, value, error) ==
    [tag |-> "SetPropertyError", property |-> property, value |-> value,
     error |-> error]

OpenStreamError(m) == [tag |-> "OpenStreamError", f0 |-> m]

ReadFrameError(m) == [tag |-> "ReadFrameError", f0 |-> m]

ProcessFrameError(src, destination, error) ==
    [tag |-> "ProcessFrameError", src |-> src, destination |-> destination,
     error |-> error]

StreamShutdownError(m) == [tag |-> "StreamShutdownError", f0 |-> m]

UnsupportedOperationError(backend) ==
    [tag |-> "UnsupportedOperationError", f0 |-> backend]

NotImplementedError(m) == [tag |-> "NotImplementedError", f0 |-> m]

\* The thirteen variants.
NokhwaVariants ==
    {"InitializeError", "ShutdownError", "GeneralError", "StructureError",
     "OpenDeviceError", "GetPropertyError", "SetPropertyError",
     "OpenStreamError", "ReadFrameError", "ProcessFrameError",
     "StreamShutdownError", "UnsupportedOperationError", "NotImplementedError"}

\* The payload fields each variant declares.
VariantFields(tag) ==
    CASE tag \in {"InitializeError", "ShutdownError"} -> {"backend", "error"}
      [] tag = "StructureError" -> {"structure", "error"}
      [] tag = "OpenDeviceError" -> {"f0", "f1"}
      [] tag = "GetPropertyError" -> {"property", "error"}
      [] tag = "SetPropertyError" -> {"property", "value", "error"}
      [] tag = "ProcessFrameError" -> {"src", "destination", "error"}
      [] tag \in {"GeneralError", "OpenStreamError", "ReadFrameError",
                  "StreamShutdownError", "UnsupportedOperationError",
                  "NotImplementedError"} -> {"f0"}

\* The payload fields of type String of each variant.
StringFields(tag) ==
    CASE tag \in {"InitializeError", "ShutdownError"} -> {"error"}
      [] tag = "ProcessFrameError" -> {"destination", "error"}
      [] tag = "UnsupportedOperationError" -> {}
      [] OTHER -> VariantFields(tag)

\* e is a value of type NokhwaError: one variant, with exactly its payload.
IsNokhwaError(e) ==
    /\ e.tag \in NokhwaVariants
    /\ DOMAIN e = {"tag"} \cup VariantFields(e.tag)
    /\ \A f \in StringFields(e.tag) : e[f] \in Seq(STRING)
    /\ e.tag \in {"InitializeError", "ShutdownError"} => e.backend \in CaptureAPIBackend
    /\ e.tag = "UnsupportedOperationError" => e.f0 \in CaptureAPIBackend
    /\ e.tag = "ProcessFrameError" => e.src \in FrameFormat

(***************************************************************************)
(* Display for NokhwaError, derived by thiserror from the #[error]         *)
(* attributes, lines 14-52.                                                *)
(***************************************************************************)

ErrorFormat(e) ==
    CASE e.tag = "InitializeError" ->
            S_CouldNotInitialize \o BackendDisplay(e.backend) \o S_ColonSpace
                \o e.error
      [] e.tag = "ShutdownError" ->
            S_CouldNotShutdown \o BackendDisplay(e.backend) \o S_ColonSpace
                \o e.error
      [] e.tag = "GeneralError" -> S_Error \o e.f0
      [] e.tag = "StructureError" ->
            S_CouldNotGenerate \o e.structure \o S_ColonSpace \o e.error
      [] e.tag = "OpenDeviceError" ->
            S_CouldNotOpenDevice \o e.f0 \o S_ColonSpace \o e.f1
      [] e.tag = "GetPropertyError" ->
            S_CouldNotGetProperty \o e.property \o S_ColonSpace \o e.error
      [] e.tag = "SetPropertyError" ->
            S_CouldNotSetProperty \o e.property \o S_WithValue \o e.value
                \o S_ColonSpace \o e.error
      [] e.tag = "OpenStreamError" -> S_CouldNotOpenStream \o e.f0
      [] e.tag = "ReadFrameError" -> S_CouldNotCapture \o e.f0
      [] e.tag = "ProcessFrameError" ->
            S_CouldNotProcess \o FrameFormatDisplay(e.src) \o S_To
                \o e.destination \o S_ColonSpace \o e.error
      [] e.tag = "StreamShutdownError" -> S_CouldNotStop \o e.f0
      [] e.tag = "UnsupportedOperationError" ->
            S_NotSupported \o BackendDisplay(e.f0) \o S_Dot
      [] e.tag = "NotImplementedError" -> S_NotImplementedYet \o e.f0

\* Display with the ": " of StructureError's format string left out.
Display_NoSeparator(e) ==
    IF e.tag = "StructureError"
    THEN S_CouldNotGenerate \o e.structure \o e.error
    ELSE ErrorFormat(e)

\* Display with the {0} of UnsupportedOperationError's format string left out.
Display_NoBackend(e) ==
    IF e.tag = "UnsupportedOperationError"
    THEN S_NotSupported \o S_Dot
    ELSE ErrorFormat(e)

Display(e) == ErrorFormat(e)

\* Clone for NokhwaError, derived (line 12): the same variant, each payload
\* field cloned.
Clone(e) == [f \in DOMAIN e |-> e[f]]

(***************************************************************************)
(* nokhwa_bindings_windows::BindingError, as From<BindingError> matches    *)
(* it (lines 63-91): nine cases.                                           *)
(***************************************************************************)

BindingError ==
    {[tag |-> t, error |-> e] :
        t \in {"InitializeError", "DeInitializeError", "AttributeError",
               "EnumerateError", "ReadFrameError"},
        e \in MsmfStrings}
    \cup {[tag |-> "GUIDSetError", property |-> p, value |-> v, error |-> e] :
            p \in MsmfStrings, v \in MsmfStrings, e \in MsmfStrings}
    \cup {[tag |-> "GUIDReadError", property |-> p, error |-> e] :
            p \in MsmfStrings, e \in MsmfStrings}
    \cup {[tag |-> "DeviceOpenFailError", device |-> d, error |-> e] :
            d \in Indices, e \in MsmfStrings}
    \cup {[tag |-> "NotImplementedError"]}

\* The match of From<BindingError>::from, lines 62-94.
MatchBindingError(err) ==
    CASE err.tag = "InitializeError" ->
            InitializeError("MediaFoundation", err.error)
      [] err.tag = "DeInitializeError" ->
            ShutdownError("MediaFoundation", err.error)
      [] err.tag = "GUIDSetError" ->
            SetPropertyError(err.property, err.value, err.error)
      [] err.tag = "GUIDReadError" -> GetPropertyError(err.property, err.error)
      [] err.tag = "AttributeError" -> StructureError(S_IMFAttribute, err.error)
      [] err.tag = "EnumerateError" -> GetPropertyError(S_Devices, err.error)
      [] err.tag = "DeviceOpenFailError" ->
            OpenDeviceError(ToString(err.device), err.error)
      [] err.tag = "ReadFrameError" -> ReadFrameError(err.error)
      [] err.tag = "NotImplementedError" -> NotImplementedError(S_DocsOnly)

\* From<BindingError> that drops the device of DeviceOpenFailError.
FromBindingError_NoDevice(err) ==
    IF err.tag = "DeviceOpenFailError"
    THEN OpenDeviceError(EmptyString, err.error)
    ELSE MatchBindingError(err)

\* From<BindingError> that gives EnumerateError no property name.
FromBindingError_NoProperty(err) ==
    IF err.tag = "EnumerateError"
    THEN GetPropertyError(EmptyString, err.error)
    ELSE MatchBindingError(err)

\* From<BindingError> with DeInitializeError sent to the arm above it.
FromBindingError_ShutdownAsInit(err) ==
    IF err.tag = "DeInitializeError"
    THEN InitializeError("MediaFoundation", err.error)
    ELSE MatchBindingError(err)

\* From<BindingError> that names the wrong backend in InitializeError.
FromBindingError_WrongBackend(err) ==
    IF err.tag = "InitializeError"
    THEN InitializeError("AVFoundation", err.error)
    ELSE MatchBindingError(err)

FromBindingError(err) == MatchBindingError(err)

(***************************************************************************)
(* nokhwa_bindings_macos::AVFError, as From<AVFError> matches it           *)
(* (lines 111-140): ten cases.                                             *)
(***************************************************************************)

AVFError ==
    {[tag |-> "InvalidType", expected |-> x, found |-> y] :
        x \in AvfStrings, y \in AvfStrings}
    \cup {[tag |-> "InvalidValue", found |-> y] : y \in AvfStrings}
    \cup {[tag |-> t, why |-> w] :
            t \in {"AlreadyBusy", "General", "StreamOpen", "ReadFrame"},
            w \in AvfStrings}
    \cup {[tag |-> "FailedToOpenDevice", index |-> i, why |-> w] :
            i \in Indices, w \in AvfStrings}
    \cup {[tag |-> t] : t \in {"ConfigNotAccepted", "RejectedInput", "RejectedOutput"}}

\* The match of From<AVFError>::from, lines 110-141.
MatchAVFError(avf_error) ==
    CASE avf_error.tag = "InvalidType" ->
            GetPropertyError(S_TypeOf \o avf_error.expected,
                             S_InvalidTypeFound \o avf_error.found)
      [] avf_error.tag = "InvalidValue" ->
            GetPropertyError(avf_error.found, S_InvalidValue)
      [] avf_error.tag = "AlreadyBusy" ->
            GeneralError(S_AlreadyBusy \o avf_error.why)
      [] avf_error.tag = "FailedToOpenDevice" ->
            OpenDeviceError(ToString(avf_error.index), avf_error.why)
      [] avf_error.tag = "ConfigNotAccepted" ->
            SetPropertyError(S_Configuration, S_Invalid, S_RejectedByAVF)
      [] avf_error.tag = "General" ->
            GeneralError(S_AVFoundationError \o avf_error.why)
      [] avf_error.tag = "RejectedInput" -> OpenStreamError(S_InputRejection)
      [] avf_error.tag = "RejectedOutput" -> OpenStreamError(S_OutputRejection)
      [] avf_error.tag = "StreamOpen" -> OpenStreamError(avf_error.why)
      [] avf_error.tag = "ReadFrame" -> ReadFrameError(avf_error.why)

\* From<AVFError> whose ConfigNotAccepted arm panics instead of returning.
FromAVFError_Panics(avf_error) ==
    IF avf_error.tag = "ConfigNotAccepted"
    THEN [tag |-> "Panic"]
    ELSE MatchAVFError(avf_error)

\* From<AVFError> with RejectedOutput given RejectedInput's message.
FromAVFError_SameRejection(avf_error) ==
    IF avf_error.tag = "RejectedOutput"
    THEN OpenStreamError(S_InputRejection)
    ELSE MatchAVFError(avf_error)

\* From<AVFError> with InvalidType given InvalidValue's message.
FromAVFError_TypeAsValue(avf_error) ==
    IF avf_error.tag = "InvalidType"
    THEN GetPropertyError(S_TypeOf \o avf_error.expected, S_InvalidValue)
    ELSE MatchAVFError(avf_error)

FromAVFError(avf_error) == MatchAVFError(avf_error)

\* The String payloads of a native error; a device index counts by its text.
NativeStrings(n) ==
    {n[f] : f \in DOMAIN n \ {"tag", "device", "index"}}
    \cup {ToString(n[f]) : f \in DOMAIN n \cap {"device", "index"}}

(***************************************************************************)
(* Errors a caller builds directly, without a conversion.                  *)
(***************************************************************************)

Constructed ==
    {UnsupportedOperationError(b) : b \in CaptureAPIBackend}
    \cup {StreamShutdownError(m) : m \in Generic}
    \cup {ProcessFrameError(f, S_YUYV, m) : f \in FrameFormat, m \in Generic}
    \cup {NotImplementedError(m) : m \in Generic}
    \cup {InitializeError(b, m) : b \in CaptureAPIBackend, m \in Generic}

(***************************************************************************)
(* The state machine: two native errors of one backend are converted by    *)
(* that backend's From (or two errors are built directly), the first       *)
(* result is displayed, then cloned.                                       *)
(***************************************************************************)

VARIABLES
    api,      \* "msmf", "avf": the conversion in use; "direct": none
    native,   \* the two inputs
    unified,  \* the two NokhwaError values, once made
    text,     \* the Display of unified[1], once rendered
    copy,     \* the clone of unified[1], once cloned
    pc        \* "input", "error", "shown", "cloned"

vars == <<api, native, unified, text, copy, pc>>

None == [tag |-> "None"]

Inputs(a) ==
    CASE a = "msmf" -> BindingError
      [] a = "avf" -> AVFError
      [] a = "direct" -> Constructed

Init ==
    /\ api \in {"msmf", "avf", "direct"}
    /\ native \in Inputs(api) \X Inputs(api)
    /\ unified = <<None, None>>
    /\ text = EmptyString
    /\ copy = None
    /\ pc = "input"

\* NokhwaError::from(err) for a BindingError.
ConvertBindingError ==
    /\ pc = "input"
    /\ api = "msmf"
    /\ unified' = <<FromBindingError(native[1]), FromBindingError(native[2])>>
    /\ pc' = "error"
    /\ UNCHANGED <<api, native, text, copy>>

\* NokhwaError::from(avf_error) for an AVFError.
ConvertAVFError ==
    /\ pc = "input"
    /\ api = "avf"
    /\ unified' = <<FromAVFError(native[1]), FromAVFError(native[2])>>
    /\ pc' = "error"
    /\ UNCHANGED <<api, native, text, copy>>

\* A variant built by its constructor.
Construct ==
    /\ pc = "input"
    /\ api = "direct"
    /\ unified' = native
    /\ pc' = "error"
    /\ UNCHANGED <<api, native, text, copy>>

\* to_string() / format!("{}", e) of the error.
Render ==
    /\ pc = "error"
    /\ text' = Display(unified[1])
    /\ pc' = "shown"
    /\ UNCHANGED <<api, native, unified, copy>>

\* e.clone().
CloneError ==
    /\ pc = "shown"
    /\ copy' = Clone(unified[1])
    /\ pc' = "cloned"
    /\ UNCHANGED <<api, native, unified, text>>

Next ==
    \/ ConvertBindingError
    \/ ConvertAVFError
    \/ Construct
    \/ Render
    \/ CloneError

Spec == Init /\ [][Next]_vars

\* The conversions have run.
Translated == api \in {"msmf", "avf"} /\ pc # "input"

\* unified[1] has been displayed.
Rendered == pc \in {"shown", "cloned"}

TypeOK ==
    /\ api \in {"msmf", "avf", "direct"}
    /\ pc \in {"input", "error", "shown", "cloned"}
    /\ native[1] \in Inputs(api) /\ native[2] \in Inputs(api)
    /\ pc # "input" => IsNokhwaError(unified[1]) /\ IsNokhwaError(unified[2])
    /\ pc = "cloned" => IsNokhwaError(copy)


(***************************************************************************)
(* Properties                                                              *)
(***************************************************************************)

\* The String payloads of a NokhwaError.
MessageFields(e) == {e[f] : f \in StringFields(e.tag)}

\* C1. Totality: every native error of either backend, whatever its payload,
\* translates to a value of exactly one NokhwaError variant with that
\* variant's payload, and equal native errors translate to equal values.
C1_Totality ==
    Translated =>
        /\ IsNokhwaError(unified[1])
        /\ IsNokhwaError(unified[2])
        /\ native[1] = native[2] => unified[1] = unified[2]

C1_Witness ==
    /\ Translated
    /\ api = "avf"
    /\ native[1].tag = "ConfigNotAccepted"
    /\ native[2] = native[1]
    /\ unified[1].tag = "SetPropertyError"
    /\ unified[2] = unified[1]

\* C2. Text preservation: the Display of a translated error contains every
\* String payload of the native error (message, property name, attempted value)
\* and the decimal text of its device index, each as a contiguous substring; a
\* device-open failure for device d with message m renders as
\* "Could not open device d: m".
C2_TextPreserved ==
    (Translated /\ Rendered) =>
        /\ \A m \in NativeStrings(native[1]) : Contains(text, m)
        /\ native[1].tag = "DeviceOpenFailError" =>
             text = S_CouldNotOpenDevice \o ToString(native[1].device)
                        \o S_ColonSpace \o native[1].error
        /\ native[1].tag = "FailedToOpenDevice" =>
             text = S_CouldNotOpenDevice \o ToString(native[1].index)
                        \o S_ColonSpace \o native[1].why

C2_Witness ==
    /\ Translated
    /\ Rendered
    /\ native[1] = [tag |-> "DeviceOpenFailError", device |-> MaxIndex,
                    error |-> M_PermissionDenied]
    /\ Contains(text, M_PermissionDenied)
    /\ Contains(text, ToString(MaxIndex))

C4_GeneralErrorNamesBackend ==
    (Translated /\ unified[1].tag = "GeneralError") =>
        \E b \in CaptureAPIBackend :
            unified[1].f0 = BackendDisplay(b) \o <<" ">> \o S_Error
                                \o native[1].why

\* The three native stream-open failures of AVFoundation.
StreamOpenFailures == {"RejectedInput", "RejectedOutput", "StreamOpen"}

\* Two of them, of different cases, have been translated.
TwoStreamOpenFailures ==
    /\ Translated
    /\ api = "avf"
    /\ native[1].tag \in StreamOpenFailures
    /\ native[2].tag \in StreamOpenFailures
    /\ native[1].tag # native[2].tag

\* StreamOpen(why) whose why is the very text From<AVFError> gives b.
StreamCollision(a, b) ==
    /\ a.tag = "StreamOpen"
    /\ \/ b.tag = "RejectedInput" /\ a.why = S_InputRejection
       \/ b.tag = "RejectedOutput" /\ a.why = S_OutputRejection

\* C5 as claimed: for every why, the translations of RejectedInput,
\* RejectedOutput and StreamOpen(why) are pairwise different.
C5_StreamFailuresDistinct ==
    TwoStreamOpenFailures => unified[1] # unified[2]

\* C5. The three stream-open failures translate to OpenStreamError; the
\* translations of two different cases are equal exactly when one is
\* StreamOpen(why) with why the fixed text of the other.
C5_StreamFailuresDistinctUnlessSameText ==
    TwoStreamOpenFailures =>
        /\ unified[1].tag = "OpenStreamError"
        /\ unified[2].tag = "OpenStreamError"
        /\ unified[1] = unified[2] <=>
             \/ StreamCollision(native[1], native[2])
             \/ StreamCollision(native[2], native[1])

C5_Witness ==
    /\ TwoStreamOpenFailures
    /\ native[1].tag = "RejectedInput"
    /\ native[2].tag = "RejectedOutput"
    /\ unified[1] # unified[2]

\* C6. InvalidType{expected, found} translates to GetPropertyError{"type of
\* <expected>", "Invalid type, found <found>"}, InvalidValue{found} to
\* GetPropertyError{<found>, "Invalid Value"}, and the error text of the one
\* never equals the error text of the other.
C6_ClassificationBoundary ==
    (Translated /\ api = "avf") =>
        /\ native[1].tag = "InvalidType" =>
             unified[1] = GetPropertyError(S_TypeOf \o native[1].expected,
                                           S_InvalidTypeFound \o native[1].found)
        /\ native[1].tag = "InvalidValue" =>
             unified[1] = GetPropertyError(native[1].found, S_InvalidValue)
        /\ (native[1].tag = "InvalidType" /\ native[2].tag = "InvalidValue") =>
             /\ unified[1].tag = "GetPropertyError"
             /\ unified[2].tag = "GetPropertyError"
             /\ unified[1].error # unified[2].error

C6_Witness ==
    /\ Translated
    /\ native[1] = [tag |-> "InvalidType", expected |-> M_OutOfMemory,
                    found |-> EmptyString]
    /\ native[2] = [tag |-> "InvalidValue", found |-> S_TypeOf \o M_OutOfMemory]
    /\ unified[1].property = unified[2].property
    /\ unified[1].error # unified[2].error

\* "Could not generate required structure IMFAttribute: "
StructureIMFAttributeText ==
    <<"C", "o", "u", "l", "d", " ", "n", "o", "t", " ", "g", "e", "n", "e",
      "r", "a", "t", "e", " ", "r", "e", "q", "u", "i", "r", "e", "d", " ",
      "s", "t", "r", "u", "c", "t", "u", "r", "e", " ", "I", "M", "F", "A",
      "t", "t", "r", "i", "b", "u", "t", "e", ":", " ">>

\* C7. BindingError::AttributeError(m) translates to
\* StructureError{structure: "IMFAttribute", error: m}, which renders as
\* "Could not generate required structure IMFAttribute: " followed by m.
C7_AttributeError ==
    (Translated /\ api = "msmf" /\ native[1].tag = "AttributeError") =>
        /\ unified[1].tag = "StructureError"
        /\ unified[1].structure = <<"I", "M", "F", "A", "t", "t", "r", "i", "b",
                                    "u", "t", "e">>
        /\ unified[1].error = native[1].error
        /\ Rendered => text = StructureIMFAttributeText \o native[1].error

C7_Witness ==
    /\ Translated
    /\ Rendered
    /\ native[1] = [tag |-> "AttributeError", error |-> M_OutOfMemory]
    /\ text = StructureIMFAttributeText \o M_OutOfMemory

\* C8. UnsupportedOperationError(b) carries only the backend b, renders as
\* "This operation is not supported by backend <b>." for every backend b,
\* renders the same each time, and its clone has the same variant and payload.
C8_UnsupportedOperation ==
    (pc # "input" /\ unified[1].tag = "UnsupportedOperationError") =>
        /\ DOMAIN unified[1] = {"tag", "f0"}
        /\ unified[1].f0 \in CaptureAPIBackend
        /\ Rendered =>
             /\ text = S_NotSupported \o BackendDisplay(unified[1].f0) \o <<".">>
             /\ Display(unified[1]) = text
        /\ pc = "cloned" =>
             /\ copy = unified[1]
             /\ Display(copy) = text

C8_Witness ==
    /\ pc = "cloned"
    /\ unified[1] = UnsupportedOperationError("AVFoundation")
    /\ copy = unified[1]
    /\ text = S_NotSupported \o S_AVFoundation \o S_Dot

\* Two native errors of one backend that From sends to the same value: a is
\* the case with fewer fields, b the case whose payload spells out the text
\* From puts in for a.
Collision(a, b) ==
    \/ /\ api = "msmf"
       /\ a.tag = "EnumerateError"
       /\ b.tag = "GUIDReadError"
       /\ b.property = S_Devices
       /\ b.error = a.error
    \/ /\ api = "avf"
       /\ StreamCollision(b, a)

\* C9 as claimed: two different native errors of one backend never translate
\* to the same NokhwaError.
C9_Injective ==
    (Translated /\ native[1] # native[2]) => unified[1] # unified[2]

\* C9. Two different native errors of one backend translate to the same
\* NokhwaError exactly in these cases: EnumerateError(e) and
\* GUIDReadError("Devices", e); RejectedInput and
\* StreamOpen("AVFoundation Input Rejection"); RejectedOutput and
\* StreamOpen("AVFoundation Output Rejection").
C9_InjectiveExceptCollisions ==
    Translated =>
        ((native[1] # native[2] /\ unified[1] = unified[2]) <=>
            (Collision(native[1], native[2]) \/ Collision(native[2], native[1])))

C9_Witness ==
    /\ Translated
    /\ native[1] = [tag |-> "EnumerateError", error |-> M_OutOfMemory]
    /\ native[2] = [tag |-> "GUIDReadError", property |-> S_Devices,
                    error |-> M_OutOfMemory]
    /\ unified[1] = unified[2]

\* The variants that signal a capability gap.
CapabilityGaps == {"UnsupportedOperationError", "NotImplementedError"}

\* C10. A translated error is a capability gap exactly when the native error
\* is BindingError::NotImplementedError, and it is then
\* NotImplementedError("Docs-Only MediaFoundation"); no translation gives
\* UnsupportedOperationError, ProcessFrameError or StreamShutdownError; every
\* translated InitializeError or ShutdownError names MediaFoundation.
C10_Range ==
    Translated =>
        /\ unified[1].tag \in CapabilityGaps <=>
             (api = "msmf" /\ native[1].tag = "NotImplementedError")
        /\ unified[1].tag \in CapabilityGaps =>
             unified[1] = NotImplementedError(S_DocsOnly)
        /\ unified[1].tag \notin {"UnsupportedOperationError", "ProcessFrameError",
                                  "StreamShutdownError"}
        /\ unified[1].tag \in {"InitializeError", "ShutdownError"} =>
             unified[1].backend = "MediaFoundation"

C10_Witness ==
    /\ Translated
    /\ native[1] = [tag |-> "NotImplementedError"]
    /\ unified[1] = NotImplementedError(S_DocsOnly)
    /\ native[2].tag = "DeInitializeError"
    /\ unified[2] = ShutdownError("MediaFoundation", native[2].error)

=============================================================================
